---------------------------- MODULE Spec2Model ----------------------------
(***************************************************************************)
(* Scan admission pipeline of the Neo Card demo backend:                   *)
(*   validateScanRequest -> antiFraudCheck -> POST /v1/scan handler        *)
(* over the `scans` table of the SQLite ledger, and the read views         *)
(*   authenticateApiKey -> GET /v1/logs, /v1/export/csv, /v1/stats         *)
(* served while admissions insert rows.                                    *)
(*                                                                         *)
(* Every request is served by a chain of callbacks.  The model has one     *)
(* action per `await`: the awaited database call completes and the code    *)
(* after it runs up to the next await or to the response.  Between two     *)
(* awaits of one request, other requests' steps and clock ticks may occur. *)
(*                                                                         *)
(* Strings are sequences of ASCII codes.  Instants are clock ticks; an ISO *)
(* timestamp is modelled by its instant, and its UTC calendar day by       *)
(* integer division.                                                       *)
(***************************************************************************)
EXTENDS Integers, Sequences, FiniteSets, TLC

\* ---------------------------------------------------------------- bounds
\* Number of request slots served concurrently.
NumProcs == 2
\* Last clock tick of the model.
MaxTime == 6
\* Clock ticks per minute (the code's clock has 60000 ms per minute).
TicksPerMinute == 2
\* Minutes per UTC calendar day (1440 on the real clock).
MinutesPerDay == 3
\* config.antifraud.cooldownMinutes as configured (COOLDOWN_MINUTES).
CooldownMinutes == 1
\* config.antifraud.dailyScanLimit as configured (DAILY_SCAN_LIMIT).
DailyScanLimit == 2
\* Requests arrive while the ledger holds fewer rows than this.
MaxScans == 2
\* Number of distinct values of the random part of a scan id.
NumRandom == 2

Procs == 1 .. NumProcs
TicksPerDay == MinutesPerDay * TicksPerMinute

\* ---------------------------------------------------------------- values
\* A field missing from the request body (undefined).
Absent == <<-1>>
\* The empty string.
EmptyStr == << >>
\* "INVALID": 7 characters.
UidInvalid == <<73, 78, 86, 65, 76, 73, 68>>
\* "TEST1234" and "CARD5678": valid identifiers.
UidA == <<84, 69, 83, 84, 49, 50, 51, 52>>
UidB == <<67, 65, 82, 68, 53, 54, 55, 56>>
\* "DEMO01"
Demo01 == <<68, 69, 77, 79, 48, 49>>
\* "DEMO02"
Demo02 == <<68, 69, 77, 79, 48, 50>>
\* A number that is undefined or NaN.
NoNum == -1

BodyUids == {Absent, EmptyStr, UidInvalid, UidA, UidB}
BodyCampaigns == {Absent, Demo01}

\* No timestamp (SQL NULL / JavaScript null).
NoTime == -1
\* config.security.aeiSecretKey
AeiSecretKey == "neocard-aei-hmac-secret-key-2024"

\* JavaScript truthiness of a body field: undefined and "" are falsy.
Falsy(v) == v = Absent \/ v = EmptyStr

\* ---------------------------------------------------------------- state
VARIABLES
  now,      \* the wall clock
  scans,    \* rows of the scans table
  pc,       \* per request slot: where its callback chain stands
  body,     \* per request slot: req.body
  loc,      \* per request slot: local variables of the middleware and handler
  res,      \* per request slot: the response sent, or NoRes
  caught,   \* per request slot: the catch block that caught an error, or "none"
  arg,      \* the argument of a function applied on its own
  out,      \* its result: << >> before the call, <<value>> after it
  rpc,      \* the read request (logs, CSV export, stats): where it stands
  req,      \* the read request: route, API key and query
  rloc,     \* the read request: local variables of its handler
  rres      \* the read request: the response sent, or NoRes

\* ---------------------------------------------------------------- utils
\* [A-Za-z0-9]
\* (mutant: \w, which also takes the underscore)
IsAlnumMutWord(c) == (c >= 48 /\ c <= 57) \/ (c >= 65 /\ c <= 90) \/ (c >= 97 /\ c <= 122) \/ c = 95
IsAlnum(c) == (c >= 48 /\ c <= 57) \/ (c >= 65 /\ c <= 90) \/ (c >= 97 /\ c <= 122)

\* /^[A-Za-z0-9]{8,16}$/.test(uid)
isValidUID(uid) == Len(uid) >= 8 /\ Len(uid) <= 16 /\ \A i \in 1 .. Len(uid) : IsAlnum(uid[i])

\* Integer division truncating toward zero (moment's diff uses absFloor).
TruncDiv(a, b) == IF a >= 0 THEN a \div b ELSE -((-a) \div b)

\* now.diff(lastScan, 'minutes') < cooldownMinutes, at instant t.
\* (mutant: the difference rounded to the nearest minute)
isWithinCooldownMutRound(lastScanTime, cooldownMinutes, t) ==
  IF lastScanTime = NoTime THEN FALSE
  ELSE (2 * (t - lastScanTime) + TicksPerMinute) \div (2 * TicksPerMinute) < cooldownMinutes
isWithinCooldown(lastScanTime, cooldownMinutes, t) ==
  IF lastScanTime = NoTime THEN FALSE
  ELSE TruncDiv(t - lastScanTime, TicksPerMinute) < cooldownMinutes

\* new Date().toISOString().split('T')[0] at instant t: the UTC day.
IsoDay(t) == t \div TicksPerDay

\* HMAC-SHA256 as an ideal keyed function of its input string.
Hmac(key, data) == <<key, data>>
\* The text of a calendar day (YYYY-MM-DD), fixed-width.
DateString(d) == <<48 + d>>
\* toISOString(): the fixed-width rendering <day>T<time of day>Z of the instant.
IsoString(t) == DateString(t \div TicksPerDay) \o <<84, 48 + (t % TicksPerDay), 90>>
\* (mutant: the instant of the call is sealed, not the timestamp given)
generateAEIChecksumMutClock(uid, timestamp, campaignId, secretKey) ==
  Hmac(secretKey, uid \o IsoString(now) \o campaignId)
\* (mutant: campaignId is left out of the data)
generateAEIChecksumMutNoCampaign(uid, timestamp, campaignId, secretKey) ==
  Hmac(secretKey, uid \o IsoString(timestamp))
generateAEIChecksum(uid, timestamp, campaignId, secretKey) ==
  Hmac(secretKey, uid \o IsoString(timestamp) \o campaignId)

\* `scan_${Date.now()}_${crypto.randomBytes(4).toString('hex')}`
generateScanId(t, rnd) == <<t, rnd>>

rvars == <<rpc, req, rloc, rres>>
vars == <<now, scans, pc, body, loc, res, caught, arg, out, rpc, req, rloc, rres>>

NoRes == [status |-> 0]
NoBody == [uid |-> Absent, campaign_id |-> Absent]
NoRecord == [scan_id |-> <<NoTime, 0>>, uid |-> Absent, campaign_id |-> Absent,
             timestamp |-> NoTime, checksum |-> << >>, verified |-> FALSE]
\* today: local of antiFraudCheck; scanRecord, totalScans, startDate: locals
\* of the POST /v1/scan handler, as far as they live across an await.
NoLoc == [today |-> NoTime, scanRecord |-> NoRecord,
          totalScans |-> 0, startDate |-> NoTime]

\* req.query of a read request with no parameter.
NoQuery == [uid |-> Absent, campaign_id |-> Absent, start_date |-> Absent,
            end_date |-> Absent, limit |-> NoNum, offset |-> NoNum, date |-> Absent]
NoReq == [route |-> "none", apiKey |-> "", query |-> NoQuery]
\* results: getStats' results object.  failed: getStats logged a query error.
NoResults == [totalScans |-> 0, todayScans |-> 0, yesterdayScans |-> 0,
              uniqueUids |-> 0, lastScan |-> NoTime]
\* scans: the page of the logs handler.  targetDate: of the CSV handler.
\* today, yesterday, key, results: of getStats.
NoRLoc == [scans |-> << >>, targetDate |-> Absent, today |-> NoTime,
           yesterday |-> NoTime, key |-> "none", results |-> NoResults, failed |-> FALSE]

\* No read request is being served.
ReadIdle ==
  /\ rpc = "idle"
  /\ req = NoReq
  /\ rloc = NoRLoc
  /\ rres = NoRes

Init ==
  /\ now = 0
  /\ scans = {}
  /\ pc = [p \in Procs |-> "idle"]
  /\ body = [p \in Procs |-> NoBody]
  /\ loc = [p \in Procs |-> NoLoc]
  /\ res = [p \in Procs |-> NoRes]
  /\ caught = [p \in Procs |-> "none"]
  /\ arg = << >>
  /\ out = << >>
  /\ ReadIdle

\* ---------------------------------------------------------------- database
\* DATE(timestamp) of SQLite on a stored ISO timestamp: its UTC day.
SqlDate(ts) == ts \div TicksPerDay

RowsOf(uid) == {r \in scans : r.uid = uid}

MaxTs(rows) == CHOOSE t \in {r.timestamp : r \in rows} : \A r \in rows : t >= r.timestamp

\* SELECT timestamp FROM scans WHERE uid = ? ORDER BY timestamp DESC LIMIT 1
\* (mutant: no WHERE uid = ?)
getLastScanTimeMutAnyUid(uid) == IF scans = {} THEN NoTime ELSE MaxTs(scans)
getLastScanTime(uid) == IF RowsOf(uid) = {} THEN NoTime ELSE MaxTs(RowsOf(uid))

\* SELECT COUNT(*) FROM scans WHERE uid = ? AND DATE(timestamp) = ?
\* (mutant: no uid = ?)
getDailyScanCountMutAnyUid(uid, date) ==
  Cardinality({r \in scans : SqlDate(r.timestamp) = date})
getDailyScanCount(uid, date) ==
  Cardinality({r \in RowsOf(uid) : SqlDate(r.timestamp) = date})

\* scan_id TEXT UNIQUE NOT NULL
ScanIdTaken(id) == \E r \in scans : r.scan_id = id


\* node-sqlite3 binds a JavaScript boolean as an INTEGER.
SqlBool(b) == IF b THEN 1 ELSE 0

\* The row INSERT INTO scans (...) VALUES (?, ?, ?, ?, ?, ?) stores.
\* (mutant: the timestamp is stored to the minute)
RowOfMutMinuteStamp(scanData) ==
  [scanData EXCEPT !.verified = SqlBool(scanData.verified),
                   !.timestamp = (scanData.timestamp \div TicksPerMinute) * TicksPerMinute]
RowOf(scanData) == [scanData EXCEPT !.verified = SqlBool(scanData.verified)]

\* getScans({ limit: 1000 })
TotalLimit == 1000
Min(a, b) == IF a <= b THEN a ELSE b

\* Comparison of TEXT values in SQLite (BINARY collation): byte by byte, a
\* proper prefix sorting first.
RECURSIVE StrLe(_, _)
StrLe(a, b) ==
  IF a = << >> THEN TRUE
  ELSE IF b = << >> THEN FALSE
  ELSE IF a[1] # b[1] THEN a[1] < b[1]
  ELSE StrLe(Tail(a), Tail(b))

\* JavaScript truthiness of a filter: a string field, a numeric field.
TruthyStr(v) == ~Falsy(v)
TruthyNum(n) == n # NoNum /\ n # 0

\* The rows selected by the WHERE clause getScans builds.
WhereRows(filters) ==
  {r \in scans :
     /\ TruthyStr(filters.uid) => r.uid = filters.uid
     /\ TruthyStr(filters.campaign_id) => r.campaign_id = filters.campaign_id
     /\ TruthyStr(filters.start_date) => StrLe(filters.start_date, IsoString(r.timestamp))
     /\ TruthyStr(filters.end_date) => StrLe(IsoString(r.timestamp), filters.end_date)}

\* ORDER BY timestamp DESC: every arrangement of the rows with timestamps
\* not increasing (SQL leaves the order of rows with equal keys open).
OrderByTimestampDesc(rows) ==
  {q \in [1 .. Cardinality(rows) -> rows] :
     /\ \A i, j \in DOMAIN q : i # j => q[i] # q[j]
     /\ \A i, j \in DOMAIN q : i < j => q[i].timestamp >= q[j].timestamp}

\* Elements first+1 .. first+count of q.
Slice(q, first, count) ==
  [i \in 1 .. Min(count, IF Len(q) > first THEN Len(q) - first ELSE 0) |-> q[first + i]]

SqlError == [error |-> "SQLITE_ERROR"]
IoError == [error |-> "SQLITE_IOERR"]

\* getScans(filters): the outcomes of the call on the present ledger, each
\* either [rows |-> the rows resolved] or [error |-> the rejection].  LIMIT
\* is added for a truthy limit and OFFSET for a truthy offset; SQLite rejects
\* OFFSET without LIMIT as a syntax error.
getScans(filters) ==
  IF TruthyNum(filters.limit)
  THEN {[rows |-> Slice(q, IF TruthyNum(filters.offset) THEN filters.offset ELSE 0, filters.limit)] :
          q \in OrderByTimestampDesc(WhereRows(filters))}
  ELSE IF TruthyNum(filters.offset)
  THEN {SqlError}
  ELSE {[rows |-> q] : q \in OrderByTimestampDesc(WhereRows(filters))}

\* ---------------------------------------------------------------- responses
ValidationError(code) == [status |-> 400, code |-> code]
CooldownActive(cooldownMinutes, lastScanTime) ==
  [status |-> 429, code |-> "COOLDOWN_ACTIVE",
   cooldownMinutes |-> cooldownMinutes, lastScanTime |-> lastScanTime]
DailyLimitExceeded(dailyLimit, currentCount) ==
  [status |-> 429, code |-> "DAILY_LIMIT_EXCEEDED",
   dailyLimit |-> dailyLimit, currentCount |-> currentCount]
\* antiFraudCheck's catch: next(error), answered by the application's error handler.
NextError == [status |-> 500, passed |-> "next(error)"]
\* The handler's catch: formatResponse(false, 'Failed to register scan', null, {error}).
ScanFailed == [status |-> 500, message |-> "Failed to register scan"]
ScanRegistered(record, total, daily) ==
  [status |-> 201, data |-> record,
   meta |-> [total_scans |-> total, daily_scans |-> daily]]

CodeOf(r) == IF "code" \in DOMAIN r THEN r.code ELSE "none"

\* ---------------------------------------------------------------- middleware
\* (mutant: campaign_id tested first)
validateScanRequestMutOrder(b) ==
  IF Falsy(b.campaign_id) THEN "MISSING_CAMPAIGN_ID"
  ELSE IF Falsy(b.uid) THEN "MISSING_UID"
  ELSE IF ~isValidUID(b.uid) THEN "INVALID_UID_FORMAT"
  ELSE "next"
\* (mutant: no format test)
validateScanRequestMutNoFormat(b) ==
  IF Falsy(b.uid) THEN "MISSING_UID"
  ELSE IF Falsy(b.campaign_id) THEN "MISSING_CAMPAIGN_ID"
  ELSE "next"
\* validateScanRequest: the code it answers with, or "next".
validateScanRequest(b) ==
  IF Falsy(b.uid) THEN "MISSING_UID"
  ELSE IF Falsy(b.campaign_id) THEN "MISSING_CAMPAIGN_ID"
  ELSE IF ~isValidUID(b.uid) THEN "INVALID_UID_FORMAT"
  ELSE "next"

\* res.status(...).json(response): the request is over.
Respond(p, response) ==
  /\ pc' = [pc EXCEPT ![p] = "done"]
  /\ res' = [res EXCEPT ![p] = response]
  /\ body' = [body EXCEPT ![p] = NoBody]
  /\ loc' = [loc EXCEPT ![p] = NoLoc]

\* catch (error) of antiFraudCheck: console.error, then next(error).
\* (mutant: the catch answers the request as rejected by the cooldown)
antiFraudCheckCatchMutReject(p) ==
  /\ Respond(p, CooldownActive(CooldownMinutes, NoTime))
  /\ caught' = [caught EXCEPT ![p] = "antiFraudCheck"]
antiFraudCheckCatch(p) ==
  /\ Respond(p, NextError)
  /\ caught' = [caught EXCEPT ![p] = "antiFraudCheck"]

\* catch (error) of the POST /v1/scan handler: console.error, then 500.
scanCatch(p) ==
  /\ Respond(p, ScanFailed)
  /\ caught' = [caught EXCEPT ![p] = "scan"]

\* POST /v1/scan arrives with a parsed body.
Receive(p) ==
  /\ pc[p] \in {"idle", "done"}
  /\ Cardinality(scans) < MaxScans
  /\ \E u \in BodyUids, c \in BodyCampaigns :
       body' = [body EXCEPT ![p] = [uid |-> u, campaign_id |-> c]]
  /\ pc' = [pc EXCEPT ![p] = "validate"]
  /\ res' = [res EXCEPT ![p] = NoRes]
  /\ caught' = [caught EXCEPT ![p] = "none"]
  /\ UNCHANGED <<now, scans, loc>>

\* validateScanRequest runs; when it passes, antiFraudCheck starts and calls
\* db.getLastScanTime(uid).
Validate(p) ==
  /\ pc[p] = "validate"
  /\ LET v == validateScanRequest(body[p])
     IN IF v = "next"
        THEN /\ pc' = [pc EXCEPT ![p] = "lastScan"]
             /\ UNCHANGED <<res, body, loc>>
        ELSE Respond(p, ValidationError(v))
  /\ UNCHANGED <<now, scans, caught>>

\* `await db.getLastScanTime(uid)` completes (or throws); antiFraudCheck runs the
\* cooldown test, then computes `today` and calls db.getDailyScanCount.
\* (mutant: the daily limit tested first)
LastScanDoneMutLimitFirst(p) ==
  /\ pc[p] = "lastScan"
  /\ \/ LET lastScanTime == getLastScanTime(body[p].uid)
            dailyScanCount == getDailyScanCount(body[p].uid, IsoDay(now))
        IN IF dailyScanCount >= DailyScanLimit
           THEN Respond(p, DailyLimitExceeded(DailyScanLimit, dailyScanCount))
                /\ UNCHANGED caught
           ELSE IF lastScanTime # NoTime
                   /\ isWithinCooldown(lastScanTime, CooldownMinutes, now)
                THEN Respond(p, CooldownActive(CooldownMinutes, lastScanTime))
                     /\ UNCHANGED caught
                ELSE /\ pc' = [pc EXCEPT ![p] = "dailyCount"]
                     /\ loc' = [loc EXCEPT ![p].today = IsoDay(now)]
                     /\ UNCHANGED <<res, body, caught>>
     \/ antiFraudCheckCatch(p)
  /\ UNCHANGED <<now, scans>>
LastScanDone(p) ==
  /\ pc[p] = "lastScan"
  /\ \/ LET lastScanTime == getLastScanTime(body[p].uid)
        IN IF lastScanTime # NoTime
              /\ isWithinCooldown(lastScanTime, CooldownMinutes, now)
           THEN Respond(p, CooldownActive(CooldownMinutes, lastScanTime))
                /\ UNCHANGED caught
           ELSE /\ pc' = [pc EXCEPT ![p] = "dailyCount"]
                /\ loc' = [loc EXCEPT ![p].today = IsoDay(now)]
                /\ UNCHANGED <<res, body, caught>>
     \/ antiFraudCheckCatch(p)
  /\ UNCHANGED <<now, scans>>

\* Scan ids generated so far: stored, or about to be inserted.
IssuedIds ==
  {r.scan_id : r \in scans} \cup {loc[q].scanRecord.scan_id : q \in {q \in Procs : pc[q] = "insert"}}

\* crypto.randomBytes(4): any value.  Random values are interchangeable, so
\* the model draws one of the values already drawn at this instant or the
\* least value not drawn yet.
RandomParts ==
  0 .. Min(NumRandom - 1, Cardinality({id \in IssuedIds : id[1] = now}))

\* dailyScanCount >= antifraud.dailyScanLimit
LimitReachedMutGt(dailyScanCount, dailyScanLimit) == dailyScanCount > dailyScanLimit
LimitReached(dailyScanCount, dailyScanLimit) == dailyScanCount >= dailyScanLimit

\* `await db.getDailyScanCount(uid, today)` completes (or throws); antiFraudCheck
\* runs the limit test; then next() runs the handler up to its call of
\* db.insertScan(scanRecord).
DailyCountDone(p) ==
  /\ pc[p] = "dailyCount"
  /\ \/ LET dailyScanCount == getDailyScanCount(body[p].uid, loc[p].today)
        IN IF LimitReached(dailyScanCount, DailyScanLimit)
           THEN Respond(p, DailyLimitExceeded(DailyScanLimit, dailyScanCount))
                /\ UNCHANGED caught
           ELSE \E rnd \in RandomParts :
                  LET uid == body[p].uid
                      campaign_id == body[p].campaign_id
                      timestamp == now
                      checksum == generateAEIChecksum(uid, timestamp, campaign_id, AeiSecretKey)
                      scanRecord == [scan_id |-> generateScanId(now, rnd), uid |-> uid,
                                     campaign_id |-> campaign_id, timestamp |-> timestamp,
                                     checksum |-> checksum, verified |-> TRUE]
                  IN /\ loc' = [loc EXCEPT ![p].today = NoTime,
                                           ![p].scanRecord = scanRecord]
                     /\ pc' = [pc EXCEPT ![p] = "insert"]
                     /\ UNCHANGED <<res, body, caught>>
     \/ antiFraudCheckCatch(p)
  /\ UNCHANGED <<now, scans>>

\* (mutant: scan_id not UNIQUE)
insertScanMutNoUnique(scanData) == scans \cup {RowOf(scanData)}
\* (mutant: one row per uid, the newer replacing the older)
insertScanMutUpsertUid(scanData) ==
  {r \in scans : r.uid # scanData.uid} \cup {RowOf(scanData)}
\* (mutant: INSERT OR REPLACE)
insertScanMutReplace(scanData) ==
  {r \in scans : r.scan_id # scanData.scan_id} \cup {RowOf(scanData)}
\* insertScan(scanData): the ledger after the call.  The row is stored unless
\* its scan_id is taken (scan_id TEXT UNIQUE).
insertScan(scanData) ==
  IF ScanIdTaken(scanData.scan_id) THEN scans ELSE scans \cup {RowOf(scanData)}

\* `await db.insertScan(scanRecord)` completes: the handler goes on to call
\* db.getScans({ limit: 1000 }); or it throws, because scan_id is taken or
\* because the write failed, and the handler's catch answers 500.
InsertDone(p) ==
  /\ pc[p] = "insert"
  /\ \/ /\ ~ScanIdTaken(loc[p].scanRecord.scan_id)
        /\ scans' = insertScan(loc[p].scanRecord)
        /\ pc' = [pc EXCEPT ![p] = "total"]
        /\ UNCHANGED <<res, body, loc, caught>>
     \/ /\ ScanIdTaken(loc[p].scanRecord.scan_id)
        /\ scans' = insertScan(loc[p].scanRecord)
        /\ scanCatch(p)
     \/ /\ UNCHANGED scans
        /\ scanCatch(p)
  /\ UNCHANGED now

\* `await db.getScans({ limit: 1000 })` completes (or throws); the handler
\* computes the day filter and calls db.getScans({ start_date, end_date }).
TotalDone(p) ==
  /\ pc[p] = "total"
  /\ \/ /\ loc' = [loc EXCEPT ![p].totalScans = Min(Cardinality(scans), TotalLimit),
                              ![p].startDate = IsoDay(now)]
        /\ pc' = [pc EXCEPT ![p] = "today"]
        /\ UNCHANGED <<res, body, caught>>
     \/ scanCatch(p)
  /\ UNCHANGED <<now, scans>>

\* { start_date: <day>, end_date: <day> + 'T23:59:59.999Z' }
TodayFilters(day) ==
  [uid |-> Absent, campaign_id |-> Absent,
   start_date |-> DateString(day),
   end_date |-> DateString(day) \o <<84, 48 + TicksPerDay - 1, 90>>,
   limit |-> NoNum, offset |-> NoNum]

\* `await db.getScans({ start_date, end_date })` completes (or throws); the
\* handler answers 201.
TodayDone(p) ==
  /\ pc[p] = "today"
  /\ \/ LET todayScans == WhereRows(TodayFilters(loc[p].startDate))
        IN /\ Respond(p, ScanRegistered(loc[p].scanRecord, loc[p].totalScans,
                                       Cardinality(todayScans)))
           /\ UNCHANGED caught
     \/ scanCatch(p)
  /\ UNCHANGED <<now, scans>>

\* The clock advances.
Tick ==
  /\ now < MaxTime
  /\ now' = now + 1
  /\ UNCHANGED <<scans, pc, body, loc, res, caught>>

Next ==
  /\ \/ Tick
     \/ \E p \in Procs :
          \/ Receive(p)
          \/ Validate(p)
          \/ LastScanDone(p)
          \/ DailyCountDone(p)
          \/ InsertDone(p)
          \/ TotalDone(p)
          \/ TodayDone(p)
  /\ UNCHANGED <<arg, out>>
  /\ UNCHANGED rvars

Spec == Init /\ [][Next]_vars

\* ---------------------------------------------------------------- isValidUID alone
\* Longest identifier tried.
MaxUidLen == 17
\* Characters tried: the ends of the digit and letter ranges, their
\* neighbours, and line feed, space, '-', '_', and a non-ASCII letter.
ProbeChars == {10, 32, 45, 47, 48, 57, 58, 64, 65, 90, 91, 95, 96, 97, 122, 123, 233}
\* 'A' repeated len times.
Repeat(len) == [i \in 1 .. len |-> 65]
\* Strings of up to MaxUidLen characters, all 'A' but at most one.
TestUids ==
  {Repeat(len) : len \in 0 .. MaxUidLen}
    \cup UNION {{[Repeat(len) EXCEPT ![k] = c] : k \in 1 .. len, c \in ProbeChars} : len \in 1 .. MaxUidLen}

InitUID ==
  /\ now = 0
  /\ scans = {}
  /\ pc = [p \in Procs |-> "idle"]
  /\ body = [p \in Procs |-> NoBody]
  /\ loc = [p \in Procs |-> NoLoc]
  /\ res = [p \in Procs |-> NoRes]
  /\ caught = [p \in Procs |-> "none"]
  /\ arg \in TestUids
  /\ out = << >>
  /\ ReadIdle

\* isValidUID(uid) is called.
CallIsValidUID ==
  /\ out = << >>
  /\ out' = <<isValidUID(arg)>>
  /\ UNCHANGED <<now, scans, pc, body, loc, res, caught, arg>>
  /\ UNCHANGED rvars

SpecUID == InitUID /\ [][CallIsValidUID]_vars

\* ---------------------------------------------------------------- getScans alone
\* Most rows of a ledger the call is tried on.
MaxRows == 3
\* Last instant of a row of such a ledger.
MaxStamp == 2
\* Greatest limit and offset tried.
MaxPage == 2

\* The record the POST /v1/scan handler builds at instant t.
ScanRecord(uid, campaign_id, t, rnd) ==
  [scan_id |-> generateScanId(t, rnd), uid |-> uid, campaign_id |-> campaign_id,
   timestamp |-> t, checksum |-> generateAEIChecksum(uid, t, campaign_id, AeiSecretKey),
   verified |-> TRUE]

\* Rows admissions may have stored: of either identifier and campaign, at
\* any instant up to MaxStamp.
StoredRows ==
  {RowOf(ScanRecord(u, c, t, IF u = UidA THEN 0 ELSE 1)) :
     u \in {UidA, UidB}, c \in {Demo01, Demo02}, t \in 0 .. MaxStamp}
Ledgers ==
  {L \in SUBSET StoredRows :
     /\ Cardinality(L) <= MaxRows
     /\ \A r1, r2 \in L : r1.scan_id = r2.scan_id => r1 = r2}

NoFilters == [uid |-> Absent, campaign_id |-> Absent, start_date |-> Absent,
              end_date |-> Absent, limit |-> NoNum, offset |-> NoNum]
TestFilters ==
  [uid : {Absent, UidA}, campaign_id : {Absent, Demo01},
   start_date : {Absent, IsoString(1)}, end_date : {Absent, IsoString(1)},
   limit : {NoNum} \cup 0 .. MaxPage, offset : {NoNum} \cup 0 .. MaxPage]

InitScans ==
  /\ now = MaxStamp
  /\ scans \in Ledgers
  /\ pc = [p \in Procs |-> "idle"]
  /\ body = [p \in Procs |-> NoBody]
  /\ loc = [p \in Procs |-> NoLoc]
  /\ res = [p \in Procs |-> NoRes]
  /\ caught = [p \in Procs |-> "none"]
  /\ arg \in TestFilters
  /\ out = << >>
  /\ ReadIdle

\* db.getScans(filters) is called and settles.
CallGetScans ==
  /\ out = << >>
  /\ \E result \in getScans(arg) \cup {IoError} : out' = <<result>>
  /\ UNCHANGED <<now, scans, pc, body, loc, res, caught, arg>>
  /\ UNCHANGED rvars

SpecScans == InitScans /\ [][CallGetScans]_vars

\* ---------------------------------------------------------------- read views
\* Rows of the api_keys table: the two seeded keys, and a key that was
\* deactivated.
ApiKeyRows ==
  {[api_key |-> "neocard_admin_demo_key_2024", permissions |-> "admin", active |-> 1],
   [api_key |-> "neocard_sponsor_demo_key_2024", permissions |-> "sponsor", active |-> 1],
   [api_key |-> "neocard_retired_key", permissions |-> "admin", active |-> 0]}
NoRow == [api_key |-> "", permissions |-> "", active |-> 0]

\* SELECT * FROM api_keys WHERE api_key = ? AND active = 1
\* (mutant: no AND active = 1)
validateApiKeyMutAnyRow(apiKey) ==
  LET rows == {r \in ApiKeyRows : r.api_key = apiKey}
  IN IF rows = {} THEN NoRow ELSE CHOOSE r \in rows : TRUE
validateApiKey(apiKey) ==
  LET rows == {r \in ApiKeyRows : r.api_key = apiKey /\ r.active = 1}
  IN IF rows = {} THEN NoRow ELSE CHOOSE r \in rows : TRUE

MissingApiKey == [status |-> 401, code |-> "MISSING_API_KEY"]
InvalidApiKey == [status |-> 401, code |-> "INVALID_API_KEY"]
KeyValidationFailed == [status |-> 500, code |-> "VALIDATION_ERROR"]
LogsFailed == [status |-> 500, message |-> "Failed to retrieve logs"]
CsvFailed == [status |-> 500, message |-> "Failed to export CSV"]

\* const { limit = 50, offset = 0, ... } = req.query; parseInt(limit), parseInt(offset)
DefaultLimit == 50
ParsedLimit(query) == IF query.limit = NoNum THEN DefaultLimit ELSE query.limit
ParsedOffset(query) == IF query.offset = NoNum THEN 0 ELSE query.offset

\* The filters the logs handler passes to its first getScans call.
LogsFilters(query) ==
  [uid |-> IF TruthyStr(query.uid) THEN query.uid ELSE Absent,
   campaign_id |-> IF TruthyStr(query.campaign_id) THEN query.campaign_id ELSE Absent,
   start_date |-> IF TruthyStr(query.start_date) THEN query.start_date ELSE Absent,
   end_date |-> IF TruthyStr(query.end_date) THEN query.end_date ELSE Absent,
   limit |-> ParsedLimit(query), offset |-> ParsedOffset(query)]
\* totalFilters: the same without limit and offset.
TotalFilters(query) == [LogsFilters(query) EXCEPT !.limit = NoNum, !.offset = NoNum]

LogsRetrieved(rows, total, limit, offset) ==
  [status |-> 200,
   data |-> [scans |-> rows,
             pagination |-> [total |-> total, limit |-> limit, offset |-> offset,
                             has_more |-> total > offset + limit]]]

\* The filters of the CSV handler for targetDate.
\* (mutant: end_date is the bare date)
CsvFiltersMutBareEnd(targetDate, query) ==
  [NoFilters EXCEPT !.start_date = targetDate \o <<84, 48, 90>>,
                    !.end_date = targetDate,
                    !.campaign_id = IF TruthyStr(query.campaign_id) THEN query.campaign_id ELSE Absent]
\* (mutant: campaign_id is not made a filter)
CsvFiltersMutNoCampaign(targetDate, query) ==
  [NoFilters EXCEPT !.start_date = targetDate \o <<84, 48, 90>>,
                    !.end_date = targetDate \o <<84, 48 + TicksPerDay - 1, 90>>]
CsvFilters(targetDate, query) ==
  [NoFilters EXCEPT !.start_date = targetDate \o <<84, 48, 90>>,
                    !.end_date = targetDate \o <<84, 48 + TicksPerDay - 1, 90>>,
                    !.campaign_id = IF TruthyStr(query.campaign_id) THEN query.campaign_id ELSE Absent]

\* The lines of csvContent, each a sequence of fields.
CsvHeader == <<"Scan ID", "UID", "Campaign ID", "Timestamp", "Checksum", "Verified">>
CsvRow(scan) ==
  <<scan.scan_id, scan.uid, scan.campaign_id, IsoString(scan.timestamp), scan.checksum, scan.verified>>
CsvSent(targetDate, rows) ==
  [status |-> 200, contentType |-> "text/csv", filename |-> targetDate,
   lines |-> <<CsvHeader>> \o [i \in DOMAIN rows |-> CsvRow(rows[i])]]

\* res.status(...).json(response) of a read request.
ReadRespond(response) ==
  /\ rpc' = "done"
  /\ rres' = response
  /\ req' = NoReq
  /\ rloc' = NoRLoc

\* API keys presented: none, the seeded keys, the deactivated one, an unknown one.
RequestKeys ==
  {"", "neocard_admin_demo_key_2024", "neocard_sponsor_demo_key_2024",
   "neocard_retired_key", "wrong_key"}
LogsQueries ==
  {[NoQuery EXCEPT !.uid = u, !.start_date = sd, !.limit = l, !.offset = o] :
     u \in {Absent, UidA}, sd \in {Absent, IsoString(1)},
     l \in {NoNum, 0, 1}, o \in {NoNum, 1}}
CsvQueries ==
  {[NoQuery EXCEPT !.date = d, !.campaign_id = c] :
     d \in {Absent, DateString(0), DateString(1)}, c \in {Absent, Demo01}}
ReadRequests ==
  [route : {"logs", "csv", "stats"}, apiKey : RequestKeys, query : {NoQuery}]
    \cup [route : {"logs"}, apiKey : {"neocard_admin_demo_key_2024"}, query : LogsQueries]
    \cup [route : {"csv"}, apiKey : {"neocard_admin_demo_key_2024"}, query : CsvQueries]

\* GET /v1/logs, /v1/export/csv or /v1/stats arrives.
ReadReceive ==
  /\ rpc \in {"idle", "done"}
  /\ req' \in ReadRequests
  /\ rpc' = "authenticate"
  /\ rres' = NoRes
  /\ rloc' = NoRLoc
  /\ UNCHANGED <<now, scans>>

\* authenticateApiKey up to its await: 401 without a key, else
\* db.validateApiKey(apiKey) is called.
Authenticate ==
  /\ rpc = "authenticate"
  /\ IF req.apiKey = ""
     THEN ReadRespond(MissingApiKey)
     ELSE /\ rpc' = "validateApiKey"
          /\ UNCHANGED <<req, rloc, rres>>
  /\ UNCHANGED <<now, scans>>

\* getStats' query for key, on the present ledger.
\* (mutant: COUNT(uid) for COUNT(DISTINCT uid))
StatsQueryMutCountUid(key, today, yesterday) ==
  CASE key = "totalScans" -> Cardinality(scans)
    [] key = "todayScans" -> Cardinality({r \in scans : SqlDate(r.timestamp) = today})
    [] key = "yesterdayScans" -> Cardinality({r \in scans : SqlDate(r.timestamp) = yesterday})
    [] key = "uniqueUids" -> Cardinality(scans)
    [] key = "lastScan" -> IF scans = {} THEN NoTime ELSE MaxTs(scans)
StatsQuery(key, today, yesterday) ==
  CASE key = "totalScans" -> Cardinality(scans)
    [] key = "todayScans" -> Cardinality({r \in scans : SqlDate(r.timestamp) = today})
    [] key = "yesterdayScans" -> Cardinality({r \in scans : SqlDate(r.timestamp) = yesterday})
    [] key = "uniqueUids" -> Cardinality({r.uid : r \in scans})
    [] key = "lastScan" -> IF scans = {} THEN NoTime ELSE MaxTs(scans)
\* Object.entries(queries): the key after key, "none" after the last.
NextKey(key) ==
  CASE key = "totalScans" -> "todayScans"
    [] key = "todayScans" -> "yesterdayScans"
    [] key = "yesterdayScans" -> "uniqueUids"
    [] key = "uniqueUids" -> "lastScan"
    [] key = "lastScan" -> "none"

\* `await db.validateApiKey(apiKey)` completes (or throws): 401 for no row,
\* else next() runs the route's handler up to its first database call.
KeyDone ==
  /\ rpc = "validateApiKey"
  /\ \/ IF validateApiKey(req.apiKey) = NoRow
        THEN ReadRespond(InvalidApiKey)
        ELSE /\ rpc' = req.route
             /\ rloc' = CASE req.route = "logs" -> rloc
                           [] req.route = "csv" ->
                                [rloc EXCEPT !.targetDate =
                                   IF TruthyStr(req.query.date) THEN req.query.date
                                   ELSE DateString(IsoDay(now))]
                           [] req.route = "stats" ->
                                [rloc EXCEPT !.today = IsoDay(now),
                                             !.yesterday = IsoDay(now - TicksPerDay),
                                             !.key = "totalScans"]
             /\ UNCHANGED <<req, rres>>
     \/ ReadRespond(KeyValidationFailed)
  /\ UNCHANGED <<now, scans>>

\* GET /v1/logs: `await db.getScans(filters)` completes (or throws); the
\* handler calls db.getScans(totalFilters).
LogsPageDone ==
  /\ rpc = "logs"
  /\ \E result \in getScans(LogsFilters(req.query)) \cup {IoError} :
       IF "error" \in DOMAIN result
       THEN ReadRespond(LogsFailed)
       ELSE /\ rloc' = [rloc EXCEPT !.scans = result.rows]
            /\ rpc' = "logsTotal"
            /\ UNCHANGED <<req, rres>>
  /\ UNCHANGED <<now, scans>>

\* GET /v1/logs: `await db.getScans(totalFilters)` completes (or throws); the
\* handler answers with the page and the pagination data.
LogsTotalDone ==
  /\ rpc = "logsTotal"
  /\ \E result \in getScans(TotalFilters(req.query)) \cup {IoError} :
       IF "error" \in DOMAIN result
       THEN ReadRespond(LogsFailed)
       ELSE ReadRespond(LogsRetrieved(rloc.scans, Len(result.rows),
                                      ParsedLimit(req.query), ParsedOffset(req.query)))
  /\ UNCHANGED <<now, scans>>

\* GET /v1/export/csv: `await db.getScans(filters)` completes (or throws);
\* the handler sends the CSV text.
CsvDone ==
  /\ rpc = "csv"
  /\ \E result \in getScans(CsvFilters(rloc.targetDate, req.query)) \cup {IoError} :
       IF "error" \in DOMAIN result
       THEN ReadRespond(CsvFailed)
       ELSE ReadRespond(CsvSent(rloc.targetDate, result.rows))
  /\ UNCHANGED <<now, scans>>

StatsRetrieved(stats) == [status |-> 200, data |-> stats]

\* getStats: the awaited query for rloc.key completes, or fails and is logged
\* and replaced by 0 or null; the loop goes on to the next key, and after the
\* last one getStats returns its results.
StatsQueryDone ==
  /\ rpc = "stats"
  /\ \E failed \in BOOLEAN :
       LET key == rloc.key
           value == IF failed THEN (IF key = "lastScan" THEN NoTime ELSE 0)
                    ELSE StatsQuery(key, rloc.today, rloc.yesterday)
       IN rloc' = [rloc EXCEPT !.results = [rloc.results EXCEPT ![key] = value],
                               !.key = NextKey(key),
                               !.failed = rloc.failed \/ failed]
  /\ rpc' = IF NextKey(rloc.key) = "none" THEN "statsResolved" ELSE "stats"
  /\ UNCHANGED <<now, scans, req, rres>>

\* GET /v1/stats: `await db.getStats()` completes; the handler answers.
StatsDone ==
  /\ rpc = "statsResolved"
  /\ ReadRespond(StatsRetrieved(rloc.results))
  /\ UNCHANGED <<now, scans>>

\* An admission stores its row: db.insertScan(scanRecord) of a POST /v1/scan
\* request, the record built at the present instant or the one before.
ScanInserted ==
  /\ Cardinality(scans) < MaxScans
  /\ \E u \in {UidA, UidB}, c \in {Demo01, Demo02}, t \in {now - 1, now} :
       LET rnd == Cardinality({r \in scans : r.scan_id[1] = t})
       IN scans' = insertScan(ScanRecord(u, c, t, rnd))
  /\ UNCHANGED <<now, rvars>>

\* The clock advances while read requests are served.
ReadTick ==
  /\ Tick
  /\ UNCHANGED rvars

NextRead ==
  /\ \/ ReadTick
     \/ ScanInserted
     \/ ReadReceive
     \/ Authenticate
     \/ KeyDone
     \/ LogsPageDone
     \/ LogsTotalDone
     \/ CsvDone
     \/ StatsQueryDone
     \/ StatsDone
  /\ UNCHANGED <<pc, body, loc, res, caught, arg, out>>

\* The service has been up since two ticks before the end of the first day
\* of the model, with an empty ledger.
InitRead ==
  /\ now = TicksPerDay - 2
  /\ scans = {}
  /\ pc = [p \in Procs |-> "idle"]
  /\ body = [p \in Procs |-> NoBody]
  /\ loc = [p \in Procs |-> NoLoc]
  /\ res = [p \in Procs |-> NoRes]
  /\ caught = [p \in Procs |-> "none"]
  /\ arg = << >>
  /\ out = << >>
  /\ ReadIdle

SpecRead == InitRead /\ [][NextRead]_vars

\* ---------------------------------------------------------------- generateAEIChecksum alone
\* Most calls of generateAEIChecksum in a behaviour.
MaxCalls == 2
\* "TEST12340": UidA followed by '0'.
UidA0 == UidA \o <<48>>
\* Arguments tried: identifiers, timestamps (by their instants), campaigns, secrets.
SealArgs ==
  [uid : {UidA, UidB, UidA0}, timestamp : {0, 1}, campaignId : {Demo01, Demo02},
   secretKey : {AeiSecretKey, "test-secret-key"}]

\* generateAEIChecksum(uid, timestamp, campaignId, secretKey) is called; the
\* call and its result are recorded.
CallSeal ==
  /\ Len(out) < MaxCalls
  /\ \E a \in SealArgs :
       out' = Append(out, [args |-> a,
                           checksum |-> generateAEIChecksum(a.uid, a.timestamp, a.campaignId, a.secretKey)])
  /\ UNCHANGED <<now, scans, pc, body, loc, res, caught, arg>>
  /\ UNCHANGED rvars

NextSeal ==
  \/ CallSeal
  \/ Tick /\ UNCHANGED <<arg, out>> /\ UNCHANGED rvars
  \/ ScanInserted /\ UNCHANGED <<pc, body, loc, res, caught, arg, out>>

SpecSeal == Init /\ [][NextSeal]_vars

\* ---------------------------------------------------------------- verifyAEIChecksum alone
\* Bytes of a digest (32 for SHA-256).
DigestLen == 2

\* The value of a hexadecimal digit, -1 for any other character.
HexVal(c) ==
  IF c >= 48 /\ c <= 57 THEN c - 48
  ELSE IF c >= 97 /\ c <= 102 THEN c - 87
  ELSE IF c >= 65 /\ c <= 70 THEN c - 55
  ELSE -1

\* Buffer.from(str, 'hex'): one byte per pair of hexadecimal digits, ending
\* at the first pair that is not one; a last single character is dropped.
RECURSIVE BufferFromHex(_)
BufferFromHex(str) ==
  IF Len(str) < 2 \/ HexVal(str[1]) < 0 \/ HexVal(str[2]) < 0 THEN << >>
  ELSE <<16 * HexVal(str[1]) + HexVal(str[2])>> \o BufferFromHex(SubSeq(str, 3, Len(str)))

\* crypto.timingSafeEqual(a, b): throws a RangeError for buffers of different
\* byte lengths.
timingSafeEqual(a, b) ==
  IF Len(a) # Len(b) THEN [threw |-> TRUE, value |-> FALSE]
  ELSE [threw |-> FALSE, value |-> a = b]

\* verifyAEIChecksum(uid, timestamp, campaignId, providedChecksum, secretKey),
\* expectedChecksum being the text generateAEIChecksum(uid, timestamp,
\* campaignId, secretKey) returns: DigestLen bytes in lower-case hexadecimal.
verifyAEIChecksum(expectedChecksum, providedChecksum) ==
  timingSafeEqual(BufferFromHex(expectedChecksum), BufferFromHex(providedChecksum))

\* Digest texts tried: all texts of 2 * DigestLen characters out of 0, 9, a, f.
HexTexts == [1 .. 2 * DigestLen -> {48, 57, 97, 102}]
\* toUpperCase()
Upper(str) == [i \in DOMAIN str |-> IF str[i] >= 97 /\ str[i] <= 122 THEN str[i] - 32 ELSE str[i]]
\* Checksums presented against the digest text e: e itself; e with its last
\* or first character changed; e in upper case; e followed by 'z', by '0', by
\* '00'; e without its last one or two characters; the empty text; 'zz'
\* followed by e.
ProvidedTexts(e) ==
  {e,
   [e EXCEPT ![Len(e)] = IF e[Len(e)] = 48 THEN 49 ELSE 48],
   [e EXCEPT ![1] = 103],
   Upper(e),
   e \o <<122>>, e \o <<48>>, e \o <<48, 48>>,
   SubSeq(e, 1, Len(e) - 1), SubSeq(e, 1, Len(e) - 2),
   << >>,
   <<122, 122>> \o e}

InitVerify ==
  /\ now = 0
  /\ scans = {}
  /\ pc = [p \in Procs |-> "idle"]
  /\ body = [p \in Procs |-> NoBody]
  /\ loc = [p \in Procs |-> NoLoc]
  /\ res = [p \in Procs |-> NoRes]
  /\ caught = [p \in Procs |-> "none"]
  /\ \E e \in HexTexts : \E c \in ProvidedTexts(e) :
       arg = [expectedChecksum |-> e, providedChecksum |-> c]
  /\ out = << >>
  /\ ReadIdle

\* verifyAEIChecksum is called.
CallVerify ==
  /\ out = << >>
  /\ out' = <<verifyAEIChecksum(arg.expectedChecksum, arg.providedChecksum)>>
  /\ UNCHANGED <<now, scans, pc, body, loc, res, caught, arg>>
  /\ UNCHANGED rvars

SpecVerify == InitVerify /\ [][CallVerify]_vars

\* ---------------------------------------------------------------- the text of a CSV row
\* String(n) of a natural number: its decimal digits.
RECURSIVE DecText(_)
DecText(n) == IF n < 10 THEN <<48 + n>> ELSE DecText(n \div 10) \o <<48 + (n % 10)>>
\* JSON.stringify(b) of a boolean: true / false.
JsonBool(b) == IF b THEN <<116, 114, 117, 101>> ELSE <<102, 97, 108, 115, 101>>
\* The lower-case hexadecimal digit of v, and the two digits of a byte.
HexDigit(v) == IF v < 10 THEN 48 + v ELSE 87 + v
ByteHex(b) == <<HexDigit(b \div 16), HexDigit(b % 16)>>
\* The characters of a scan id: scan_<milliseconds>_<random bytes in hex>.
ScanIdText(id) ==
  <<115, 99, 97, 110, 95>> \o DecText(id[1]) \o <<95>> \o ByteHex(id[2])
RECURSIVE SumOf(_)
SumOf(str) == IF str = << >> THEN 0 ELSE Head(str) + SumOf(Tail(str))
\* The characters of a checksum, digest('hex'): DigestLen bytes in lower-case
\* hexadecimal, a function of the authenticated data.
DigestText(mac) ==
  LET byte(i) == (SumOf(mac[2]) * i + Len(mac[2])) % 256
      RECURSIVE bytes(_)
      bytes(i) == IF i > DigestLen THEN << >> ELSE ByteHex(byte(i)) \o bytes(i + 1)
  IN bytes(1)
\* The fields of a stored row as `${...}` renders them.
CsvFieldTexts(scan) ==
  <<ScanIdText(scan.scan_id), scan.uid, scan.campaign_id, IsoString(scan.timestamp),
    DigestText(scan.checksum), DecText(scan.verified)>>
\* [a, b, ...].join(sep)
RECURSIVE Join(_, _)
Join(texts, sep) ==
  IF texts = << >> THEN << >>
  ELSE IF Len(texts) = 1 THEN texts[1]
  ELSE texts[1] \o sep \o Join(Tail(texts), sep)
\* `${scan.scan_id},${scan.uid},${scan.campaign_id},${scan.timestamp},${scan.checksum},${scan.verified}`
CsvLine(scan) == Join(CsvFieldTexts(scan), <<44>>)
\* 'Scan ID,UID,Campaign ID,Timestamp,Checksum,Verified\n'
CsvHeaderText ==
  <<83, 99, 97, 110, 32, 73, 68, 44, 85, 73, 68, 44, 67, 97, 109, 112,
    97, 105, 103, 110, 32, 73, 68, 44, 84, 105, 109, 101, 115, 116, 97, 109,
    112, 44, 67, 104, 101, 99, 107, 115, 117, 109, 44, 86, 101, 114, 105, 102,
    105, 101, 100, 10>>
\* csvHeader + csvRows, for the rows getScans returned.
CsvContent(rows) ==
  CsvHeaderText \o Join([i \in DOMAIN rows |-> CsvLine(rows[i])], <<10>>)
\* text.split(sep).length, for a separator of one character.
SplitLength(text, sep) == 1 + Cardinality({i \in DOMAIN text : text[i] = sep})

\* Campaign values with a comma ("A,B") and with a line feed in them.
CampaignComma == <<65, 44, 66>>
CampaignBreak == <<65, 10, 66>>
\* A request body, and the instant and random part of its admission.
ExportArgs ==
  [body : [uid : BodyUids, campaign_id : BodyCampaigns \cup {CampaignComma, CampaignBreak}],
   t : 0 .. MaxStamp, rnd : 0 .. NumRandom - 1]

InitExportLine ==
  /\ now = 0
  /\ scans = {}
  /\ pc = [p \in Procs |-> "idle"]
  /\ body = [p \in Procs |-> NoBody]
  /\ loc = [p \in Procs |-> NoLoc]
  /\ res = [p \in Procs |-> NoRes]
  /\ caught = [p \in Procs |-> "none"]
  /\ arg \in ExportArgs
  /\ out = << >>
  /\ ReadIdle

\* validateScanRequest runs on the body; when it passes, the handler builds
\* the record, insertScan stores it and the CSV export renders its row.
CallExportLine ==
  /\ out = << >>
  /\ LET verdict == validateScanRequest(arg.body)
         row == RowOf(ScanRecord(arg.body.uid, arg.body.campaign_id, arg.t, arg.rnd))
     IN out' = <<[verdict |-> verdict,
                  csv |-> IF verdict = "next"
                          THEN CsvContent(<<row>>)
                          ELSE << >>]>>
  /\ UNCHANGED <<now, scans, pc, body, loc, res, caught, arg>>
  /\ UNCHANGED rvars

SpecExportLine == InitExportLine /\ [][CallExportLine]_vars

\* ---------------------------------------------------------------- one admission on a long ledger
\* Ledger sizes tried: within TotalsMargin of the limit of getScans({ limit: 1000 }).
TotalsMargin == 2

\* The ledger after n days of service with one admission of one identifier
\* at the start of each day.
LongLedger(n) ==
  {RowOf(ScanRecord(UidA, Demo01, k * TicksPerDay, 0)) : k \in 0 .. n - 1}

\* A valid request has arrived on the day of the ledger's last row, and no
\* other request is in flight.
InitTotals ==
  /\ \E n \in TotalLimit - TotalsMargin .. TotalLimit + TotalsMargin,
        d \in 0 .. TicksPerDay - 1 :
       /\ scans = LongLedger(n)
       /\ now = (n - 1) * TicksPerDay + d
  /\ \E u \in {UidA, UidB} :
       body = [p \in Procs |-> IF p = 1 THEN [uid |-> u, campaign_id |-> Demo01] ELSE NoBody]
  /\ pc = [p \in Procs |-> IF p = 1 THEN "validate" ELSE "idle"]
  /\ loc = [p \in Procs |-> NoLoc]
  /\ res = [p \in Procs |-> NoRes]
  /\ caught = [p \in Procs |-> "none"]
  /\ arg = << >>
  /\ out = << >>
  /\ ReadIdle

\* The request goes through validateScanRequest, antiFraudCheck and the handler.
NextTotals ==
  /\ \E p \in Procs :
       \/ Validate(p)
       \/ LastScanDone(p)
       \/ DailyCountDone(p)
       \/ InsertDone(p)
       \/ TotalDone(p)
       \/ TodayDone(p)
  /\ UNCHANGED <<arg, out>>
  /\ UNCHANGED rvars

SpecTotals == InitTotals /\ [][NextTotals]_vars

\* ---------------------------------------------------------------- the sealed data alone
\* The decimal digits of n in a field of width w, zero-padded.
RECURSIVE Pad(_, _)
Pad(n, w) == IF w = 0 THEN << >> ELSE Pad(n \div 10, w - 1) \o <<48 + (n % 10)>>
\* (mutant: the fields unpadded and run together)
ToISOStringMutUnpadded(y, mo, d, h, mi, sec, ms) ==
  DecText(y) \o DecText(mo) \o DecText(d) \o <<84>> \o DecText(h) \o DecText(mi)
    \o DecText(sec) \o DecText(ms) \o <<90>>
\* Date.prototype.toISOString() for the UTC fields of an instant in the years
\* 0 to 9999: YYYY-MM-DDTHH:mm:ss.sssZ, 24 characters.
ToISOString(y, mo, d, h, mi, sec, ms) ==
  Pad(y, 4) \o <<45>> \o Pad(mo, 2) \o <<45>> \o Pad(d, 2) \o <<84>> \o Pad(h, 2) \o <<58>>
    \o Pad(mi, 2) \o <<58>> \o Pad(sec, 2) \o <<46>> \o Pad(ms, 3) \o <<90>>
\* `${uid}${timestamp}${campaignId}`
SealedData(uid, timestamp, campaignId) == uid \o timestamp \o campaignId

\* Identifiers tried: "ABCDEFGH", "ABCDEFGH2024", "ABCDEFGH20241112".
SealUids == {<<65, 66, 67, 68, 69, 70, 71, 72>>,
             <<65, 66, 67, 68, 69, 70, 71, 72, 50, 48, 50, 52>>,
             <<65, 66, 67, 68, 69, 70, 71, 72, 50, 48, 50, 52, 49, 49, 49, 50>>}
\* Instants tried, as <<year, month, day, hours, minutes, seconds, milliseconds>>.
SealStamps ==
  {<<2024, 1, 12, 0, 0, 0, 0>>, <<2024, 11, 2, 0, 0, 0, 0>>,
   <<2024, 11, 12, 10, 0, 0, 0>>, <<1112, 10, 1, 1, 0, 0, 100>>}
\* Campaigns tried: "D", "2024D", "DEMO01", "-11-12T10:00:00.000ZD" and
\* "2024-11-12T10:00:00.000ZD".
SealCampaigns == {<<68>>,
                  <<50, 48, 50, 52, 68>>,
                  Demo01,
                  <<45, 49, 49, 45, 49, 50, 84, 49, 48, 58, 48, 48, 58, 48, 48, 46, 48, 48, 48, 90, 68>>,
                  <<50, 48, 50, 52, 45, 49, 49, 45, 49, 50, 84, 49, 48, 58, 48, 48, 58, 48, 48, 46, 48, 48, 48, 90, 68>>}
\* The triples a request can have sealed: an identifier isValidUID accepts, the
\* timestamp the handler takes, a campaign validateScanRequest accepts.
SealTriples ==
  {tr \in [uid : SealUids, stamp : SealStamps, campaign_id : SealCampaigns] :
     validateScanRequest([uid |-> tr.uid, campaign_id |-> tr.campaign_id]) = "next"}
\* The data generateAEIChecksum authenticates for a triple.
DataOf(tr) ==
  SealedData(tr.uid,
             ToISOString(tr.stamp[1], tr.stamp[2], tr.stamp[3], tr.stamp[4],
                         tr.stamp[5], tr.stamp[6], tr.stamp[7]),
             tr.campaign_id)

InitData ==
  /\ now = 0
  /\ scans = {}
  /\ pc = [p \in Procs |-> "idle"]
  /\ body = [p \in Procs |-> NoBody]
  /\ loc = [p \in Procs |-> NoLoc]
  /\ res = [p \in Procs |-> NoRes]
  /\ caught = [p \in Procs |-> "none"]
  /\ arg \in [a : SealTriples, b : SealTriples]
  /\ out = << >>
  /\ ReadIdle

\* The data of the two triples is put together.
CallSealedData ==
  /\ out = << >>
  /\ out' = <<DataOf(arg.a), DataOf(arg.b)>>
  /\ UNCHANGED <<now, scans, pc, body, loc, res, caught, arg>>
  /\ UNCHANGED rvars

SpecData == InitData /\ [][CallSealedData]_vars

\* ---------------------------------------------------------------- isWithinCooldown alone
\* Greatest cooldown period (minutes) and greatest instant (ticks) tried.
MaxWindow == 3
MaxInstant == 8

\* lastScanTime (null when the identifier has no row), cooldownMinutes (an
\* integer other than 0: parseInt(...) || 5) and the instant of the call.
CooldownArgs ==
  [lastScanTime : {NoTime} \cup 0 .. MaxInstant,
   cooldownMinutes : 1 .. MaxWindow,
   t : 0 .. MaxInstant]

InitCooldown ==
  /\ now = 0
  /\ scans = {}
  /\ pc = [p \in Procs |-> "idle"]
  /\ body = [p \in Procs |-> NoBody]
  /\ loc = [p \in Procs |-> NoLoc]
  /\ res = [p \in Procs |-> NoRes]
  /\ caught = [p \in Procs |-> "none"]
  /\ arg \in CooldownArgs
  /\ out = << >>
  /\ ReadIdle

\* isWithinCooldown(lastScanTime, cooldownMinutes) is called at instant arg.t.
CallIsWithinCooldown ==
  /\ out = << >>
  /\ out' = <<isWithinCooldown(arg.lastScanTime, arg.cooldownMinutes, arg.t)>>
  /\ UNCHANGED <<now, scans, pc, body, loc, res, caught, arg>>
  /\ UNCHANGED rvars

SpecCooldown == InitCooldown /\ [][CallIsWithinCooldown]_vars

\* ---------------------------------------------------------------- claims
\* The cooldown window in clock ticks.
CooldownTicks == CooldownMinutes * TicksPerMinute

\* The request in slot p has had its row appended and is still in flight.
Appended(p) == pc[p] \in {"total", "today"}

\* C1 (as claimed): two admission requests for the same identifier, in flight
\* at the same time, with no prior record of that identifier in the ledger,
\* are never both admitted.
C1_NeverBothAdmitted ==
  \A p, q \in Procs :
    ~ ( /\ p # q
        /\ Appended(p) /\ Appended(q)
        /\ body[p].uid = body[q].uid
        /\ RowsOf(body[p].uid) = {RowOf(loc[p].scanRecord), RowOf(loc[q].scanRecord)} )

\* C2 (as claimed): any two distinct rows of the same identifier have
\* timestamps at least the cooldown window apart.
C2_CooldownSpacing ==
  \A r1, r2 \in scans :
    (r1 # r2 /\ r1.uid = r2.uid) =>
      \/ r1.timestamp - r2.timestamp >= CooldownTicks
      \/ r2.timestamp - r1.timestamp >= CooldownTicks

\* The request in slot p takes a step.
StepOf(p) == pc'[p] # pc[p]

\* The rows of identifier uid that no other row of it is newer than.
Newest(uid) == {r \in RowsOf(uid) : \A x \in RowsOf(uid) : x.timestamp <= r.timestamp}

\* C3: when the fraud check of a valid request reads the ledger and the most
\* recent row of its identifier is less than the cooldown window old, the
\* request is answered 429 COOLDOWN_ACTIVE with cooldownMinutes equal to the
\* configured window.
C3_CooldownRejects ==
  [][\A p \in Procs :
       ( /\ pc[p] = "lastScan" /\ StepOf(p) /\ res'[p] # NextError
         /\ \E r \in Newest(body[p].uid) : now - r.timestamp < CooldownTicks )
       => /\ res'[p].status = 429
          /\ CodeOf(res'[p]) = "COOLDOWN_ACTIVE"
          /\ res'[p].cooldownMinutes = CooldownMinutes]_vars

\* C3 witness: a request was answered COOLDOWN_ACTIVE one tick after the row it
\* was blocked by: zero whole minutes elapsed, the configured window reported.
C3_Witness ==
  \E p \in Procs :
    /\ CodeOf(res[p]) = "COOLDOWN_ACTIVE"
    /\ res[p].cooldownMinutes = CooldownMinutes
    /\ now - res[p].lastScanTime = 1

\* Rows of identifier uid dated on UTC day d.
RowsOn(uid, d) == {r \in RowsOf(uid) : r.timestamp \div TicksPerDay = d}

\* C4: when a request that passed the cooldown test has its daily count read
\* and the ledger holds exactly dailyScanLimit rows of its identifier dated on
\* the current UTC day (the day on which the request went on from the cooldown
\* test to the limit test), it is answered 429 DAILY_LIMIT_EXCEEDED with
\* dailyLimit = the configured limit and currentCount = that limit.
C4_DailyLimitRejects ==
  [][\A p \in Procs :
       ( /\ pc[p] = "dailyCount" /\ StepOf(p) /\ res'[p] # NextError
         /\ Cardinality(RowsOn(body[p].uid, loc[p].today)) = DailyScanLimit )
       => res'[p] = [status |-> 429, code |-> "DAILY_LIMIT_EXCEEDED",
                     dailyLimit |-> DailyScanLimit, currentCount |-> DailyScanLimit]]_vars

\* C4 witness: an identifier has exactly dailyScanLimit rows today, the newest
\* outside the cooldown window, and a request was answered DAILY_LIMIT_EXCEEDED
\* with currentCount = dailyLimit = the limit.
C4_Witness ==
  \E p \in Procs, u \in {UidA, UidB} :
    /\ CodeOf(res[p]) = "DAILY_LIMIT_EXCEEDED"
    /\ res[p].currentCount = DailyScanLimit /\ res[p].dailyLimit = DailyScanLimit
    /\ scans = RowsOn(u, now \div TicksPerDay)
    /\ Cardinality(scans) = DailyScanLimit
    /\ \A r \in scans : now - r.timestamp >= CooldownTicks

\* C5 (as claimed): for every identifier and every UTC day, the number of rows
\* of that identifier dated on that day never exceeds the daily scan limit.
C5_DailyLimitRespected ==
  \A r \in scans :
    Cardinality({x \in scans : x.uid = r.uid /\ SqlDate(x.timestamp) = SqlDate(r.timestamp)})
      <= DailyScanLimit

\* C6: a valid request whose fraud-check reads find no row of its identifier
\* passes the cooldown test and the limit test, builds a record carrying a
\* checksum and verified = true, has exactly that record appended, and is
\* answered 201 with it, unless a storage call fails.
C6_FreshAdmitted ==
  [][\A p \in Procs :
       /\ ( pc[p] = "lastScan" /\ StepOf(p) /\ res'[p] # NextError
            /\ RowsOf(body[p].uid) = {} )
          => pc'[p] = "dailyCount"
       /\ ( pc[p] = "dailyCount" /\ StepOf(p) /\ res'[p] # NextError
            /\ RowsOf(body[p].uid) = {} )
          => /\ pc'[p] = "insert"
             /\ loc'[p].scanRecord.uid = body[p].uid
             /\ loc'[p].scanRecord.campaign_id = body[p].campaign_id
             /\ loc'[p].scanRecord.checksum # << >>
             /\ loc'[p].scanRecord.verified = TRUE
       /\ ( pc[p] = "insert" /\ StepOf(p) /\ res'[p] # ScanFailed )
          => /\ pc'[p] = "total"
             /\ \E r \in scans' :
                  /\ r \notin scans /\ scans' = scans \cup {r}
                  /\ r.scan_id = loc[p].scanRecord.scan_id
                  /\ r.uid = loc[p].scanRecord.uid
       /\ ( pc[p] \in {"total", "today"} /\ StepOf(p) /\ res'[p] # ScanFailed )
          => \/ pc'[p] = "today"
             \/ /\ res'[p].status = 201
                /\ res'[p].data = loc[p].scanRecord
                /\ res'[p].data.checksum # << >>
                /\ res'[p].data.verified = TRUE]_vars

\* C6 witness: a request was answered 201 and its record is the only row of
\* its identifier.
C6_Witness ==
  \E p \in Procs :
    /\ res[p].status = 201
    /\ res[p].data.verified = TRUE /\ res[p].data.checksum # << >>
    /\ \A r \in RowsOf(res[p].data.uid) : r.scan_id = res[p].data.scan_id
    /\ RowsOf(res[p].data.uid) # {}

Digits == 48 .. 57
UpperCase == 65 .. 90
LowerCase == 97 .. 122
\* 8 to 16 characters, each an ASCII letter or digit.
WellFormed(uid) ==
  /\ Len(uid) >= 8 /\ Len(uid) <= 16
  /\ \A i \in 1 .. Len(uid) : uid[i] \in Digits \cup UpperCase \cup LowerCase

\* C7: isValidUID accepts an identifier if and only if it has 8 to 16
\* characters, each an ASCII letter or digit, of either case.
C7_ValidatorRule ==
  out # << >> => (out[1] <=> WellFormed(arg))

\* C7 witness: a 16-character identifier with a lower-case letter was accepted.
C7_Witness ==
  /\ out = <<TRUE>> /\ Len(arg) = 16
  /\ \E i \in 1 .. 16 : arg[i] \in LowerCase

\* A body field that is not there: undefined or the empty string.
Missing(v) == v = Absent \/ v = EmptyStr

\* C8: validateScanRequest answers a request without uid with MISSING_UID;
\* otherwise one without campaign_id with MISSING_CAMPAIGN_ID; otherwise one
\* whose identifier fails the format rule with INVALID_UID_FORMAT; in these
\* cases the fraud check does not start and the ledger is unchanged.
\* Otherwise the request goes on to the fraud check.
C8_ValidationPrecedence ==
  [][\A p \in Procs :
       ( pc[p] = "validate" /\ StepOf(p) )
       => LET b == body[p]
              code == IF Missing(b.uid) THEN "MISSING_UID"
                      ELSE IF Missing(b.campaign_id) THEN "MISSING_CAMPAIGN_ID"
                      ELSE IF ~WellFormed(b.uid) THEN "INVALID_UID_FORMAT"
                      ELSE "none"
          IN IF code = "none"
             THEN pc'[p] = "lastScan" /\ res'[p] = NoRes
             ELSE /\ pc'[p] = "done"
                  /\ res'[p] = [status |-> 400, code |-> code]
                  /\ scans' = scans]_vars

\* C8 witness: one request was answered MISSING_UID, another
\* MISSING_CAMPAIGN_ID, and the ledger is empty.
C8_Witness ==
  \E p, q \in Procs :
    /\ CodeOf(res[p]) = "MISSING_UID"
    /\ CodeOf(res[q]) = "MISSING_CAMPAIGN_ID"
    /\ scans = {}

\* C9: no two rows of the ledger have the same scan_id.
C9_ScanIdUnique ==
  \A r1, r2 \in scans : r1.scan_id = r2.scan_id => r1 = r2

\* C9 witness: generateScanId has produced, for a request of one identifier,
\* the scan_id of a stored row of another identifier.
C9_Witness ==
  \E p \in Procs :
    /\ pc[p] = "insert"
    /\ \E r \in scans : r.scan_id = loc[p].scanRecord.scan_id /\ r.uid # loc[p].scanRecord.uid

\* C10: insertScan of a record whose scan_id is in the ledger fails and leaves
\* the ledger as it was; insertScan of a record with a fresh scan_id either
\* adds exactly that one row or fails and leaves the ledger as it was.
C10_InsertScan ==
  [][\A p \in Procs :
       ( pc[p] = "insert" /\ StepOf(p) )
       => LET rec == loc[p].scanRecord
          IN IF \E r \in scans : r.scan_id = rec.scan_id
             THEN scans' = scans /\ res'[p].status = 500
             ELSE \/ scans' = scans /\ res'[p].status = 500
                  \/ /\ pc'[p] = "total"
                     /\ Cardinality(scans') = Cardinality(scans) + 1
                     /\ \E r \in scans' :
                          /\ scans' = scans \cup {r}
                          /\ r.scan_id = rec.scan_id /\ r.uid = rec.uid
                          /\ r.campaign_id = rec.campaign_id
                          /\ r.timestamp = rec.timestamp
                          /\ r.checksum = rec.checksum]_vars

\* C10 witness: insertScan is called with the scan_id of a stored row of the
\* same identifier.
C10_Witness ==
  \E p \in Procs :
    /\ pc[p] = "insert"
    /\ \E r \in scans : r.scan_id = loc[p].scanRecord.scan_id /\ r.uid = loc[p].scanRecord.uid

\* C11: when a ledger read of the fraud evaluation (getLastScanTime or
\* getDailyScanCount) fails, the request ends there in an error outcome: the
\* error is passed on, the answer is neither 201 nor COOLDOWN_ACTIVE nor
\* DAILY_LIMIT_EXCEEDED, and the ledger is unchanged.
C11_ReadFailureIsError ==
  [][\A p \in Procs :
       ( /\ pc[p] \in {"lastScan", "dailyCount"}
         /\ caught[p] = "none" /\ caught'[p] = "antiFraudCheck" )
       => /\ pc'[p] = "done"
          /\ "passed" \in DOMAIN res'[p]
          /\ res'[p].status \notin {201, 429}
          /\ CodeOf(res'[p]) \notin {"COOLDOWN_ACTIVE", "DAILY_LIMIT_EXCEEDED"}
          /\ scans' = scans]_vars
\* C11 witness: a request whose identifier has a row in the ledger ended in
\* antiFraudCheck's catch while another request was being served.
C11_Witness ==
  \E p, q \in Procs :
    /\ p # q
    /\ caught[p] = "antiFraudCheck" /\ pc[p] = "done" /\ res[p] = NextError
    /\ pc[q] = "insert" /\ RowsOf(body[q].uid) # {}

\* C12 (as claimed): every response with an error status sent by the
\* middleware or the handler carries a code.
C12_ErrorsCarryCode ==
  \A p \in Procs :
    (res[p].status >= 400 /\ "passed" \notin DOMAIN res[p]) => CodeOf(res[p]) # "none"

\* The rows matching the filters that are present, bounds inclusive.
Matching(filters) ==
  {r \in scans :
     /\ filters.uid # Absent => r.uid = filters.uid
     /\ filters.campaign_id # Absent => r.campaign_id = filters.campaign_id
     /\ filters.start_date # Absent => \E t \in 0 .. r.timestamp : filters.start_date = IsoString(t)
     /\ filters.end_date # Absent => \E t \in r.timestamp .. MaxTime : filters.end_date = IsoString(t)}

\* C13 (as claimed): for every combination of filters, getScans resolves
\* (unless the storage fails) with elements offset+1 .. offset+limit of an
\* arrangement by timestamp descending of the rows matching the filters; an
\* absent offset is 0 and an absent limit is no limit.
C13_GetScansPaging ==
  \A i \in DOMAIN out :
    out[i] # IoError =>
      /\ "rows" \in DOMAIN out[i]
      /\ \E q \in OrderByTimestampDesc(Matching(arg)) :
           out[i].rows = Slice(q, IF arg.offset = NoNum THEN 0 ELSE arg.offset,
                                  IF arg.limit = NoNum THEN Len(q) ELSE arg.limit)

\* C14 (as claimed): a logs request with a positive limit that is answered
\* 200 reports pagination.total = the number of ledger rows matching its
\* non-paging filters, and has_more = TRUE exactly when the ledger holds
\* matching rows beyond the page returned (more than offset + the length of
\* the page), whether or not a row was inserted between its two queries.
C14_Pagination ==
  [][( /\ rpc = "logsTotal" /\ rpc' = "done" /\ rres'.status = 200
       /\ ParsedLimit(req.query) >= 1 )
     => LET matching == Matching(TotalFilters(req.query))
            pagination == rres'.data.pagination
        IN /\ pagination.total = Cardinality(matching)
           /\ pagination.has_more
                <=> Cardinality(matching) > ParsedOffset(req.query) + Len(rres'.data.scans)]_vars

\* C15: a stats answer none of whose queries failed and during whose
\* computation no row was inserted (totalScans still is the size of the
\* ledger) reports totalScans = the number of rows, todayScans and
\* yesterdayScans = the rows dated on the day getStats started and on the day
\* before, uniqueUids = the number of distinct identifiers, and lastScan = the
\* greatest timestamp, or null for an empty ledger.
C15_StatsAggregates ==
  [][( /\ rpc = "statsResolved" /\ rpc' = "done"
       /\ ~rloc.failed
       /\ rloc.results.totalScans = Cardinality(scans) )
     => LET stats == rres'.data
        IN /\ rres'.status = 200
           /\ stats.totalScans = Cardinality(scans)
           /\ stats.todayScans =
                Cardinality({r \in scans : r.timestamp \div TicksPerDay = rloc.today})
           /\ stats.yesterdayScans =
                Cardinality({r \in scans : r.timestamp \div TicksPerDay = rloc.today - 1})
           /\ stats.uniqueUids = Cardinality({r.uid : r \in scans})
           /\ IF scans = {} THEN stats.lastScan = NoTime
              ELSE /\ \E r \in scans : r.timestamp = stats.lastScan
                   /\ \A r \in scans : r.timestamp <= stats.lastScan]_vars
\* The read request was answered with statistics.
StatsAnswered == rpc = "done" /\ rres.status = 200 /\ "data" \in DOMAIN rres
                 /\ "totalScans" \in DOMAIN rres.data
\* C15 witness: after two admissions of one identifier, one dated yesterday
\* and one today, the stats answer has totalScans = 2, uniqueUids = 1,
\* todayScans = 1 and yesterdayScans = 1.
C15_Witness ==
  /\ StatsAnswered
  /\ Cardinality(scans) = 2
  /\ rres.data.totalScans = 2 /\ rres.data.uniqueUids = 1
  /\ rres.data.todayScans = 1 /\ rres.data.yesterdayScans = 1
  /\ rres.data.lastScan = TicksPerDay

\* C16 (as claimed): a stats answer none of whose queries failed satisfies
\* uniqueUids <= totalScans, todayScans + yesterdayScans <= totalScans, and
\* lastScan = null exactly when totalScans = 0, also when rows are inserted
\* while getStats runs.
C16_StatsSnapshot ==
  [][( /\ rpc = "statsResolved" /\ rpc' = "done" /\ ~rloc.failed )
     => LET stats == rres'.data
        IN /\ stats.uniqueUids <= stats.totalScans
           /\ stats.todayScans + stats.yesterdayScans <= stats.totalScans
           /\ stats.lastScan = NoTime <=> stats.totalScans = 0]_vars

ActiveKey(k) == \E r \in ApiKeyRows : r.api_key = k /\ r.active = 1
\* The read request is in its route handler, after authenticateApiKey.
InHandler(position) == position \in {"logs", "logsTotal", "csv", "stats", "statsResolved"}

\* C18: a read request (logs, CSV export, stats) without a key is answered
\* MISSING_API_KEY; one with an unknown or inactive key is answered
\* INVALID_API_KEY; a failed key lookup is answered with an error
\* (VALIDATION_ERROR); in these cases the request ends without entering its
\* handler, so no ledger query is made, and only a request whose key is that
\* of an active row is ever in its handler or answered 200.
C18_ReadViewsNeedKey ==
  [][/\ (rpc = "authenticate" /\ rpc' # rpc /\ req.apiKey = "")
        => rpc' = "done" /\ rres' = [status |-> 401, code |-> "MISSING_API_KEY"]
     /\ (rpc = "validateApiKey" /\ rpc' # rpc /\ ~ActiveKey(req.apiKey))
        => /\ rpc' = "done"
           /\ rres' \in {[status |-> 401, code |-> "INVALID_API_KEY"],
                        [status |-> 500, code |-> "VALIDATION_ERROR"]}
     /\ (rpc = "validateApiKey" /\ rpc' = "done" /\ ActiveKey(req.apiKey))
        => rres' = [status |-> 500, code |-> "VALIDATION_ERROR"]
     /\ InHandler(rpc) => ActiveKey(req.apiKey)
     /\ InHandler(rpc') => ActiveKey(req'.apiKey)
     /\ (rres'.status = 200 /\ rres.status # 200) => InHandler(rpc)]_vars
\* C18 witness: with rows in the ledger, a read request was answered
\* INVALID_API_KEY.
C18_Witness ==
  /\ rpc = "done"
  /\ rres = InvalidApiKey
  /\ scans # {}

DifferIn(a, b) == {f \in DOMAIN a : a[f] # b[f]}

C21_VerifyExact ==
  \A i \in DOMAIN out :
    /\ ~out[i].threw
    /\ out[i].value <=> arg.providedChecksum = arg.expectedChecksum

\* C22: every step leaves each row of the ledger in place and adds at most
\* one row; a step of a read request (logs, CSV export, stats) leaves the
\* ledger as it was, so that getScans returns after the step what it returned
\* before it, whatever the filters.
C22_AppendOnly ==
  [][/\ scans \subseteq scans'
     /\ Cardinality(scans' \ scans) <= 1
     /\ rvars' # rvars =>
          /\ scans' = scans
          /\ \A f \in {NoFilters, [NoFilters EXCEPT !.uid = UidA],
                       [NoFilters EXCEPT !.limit = 1]} :
               getScans(f)' = getScans(f)]_vars
\* C22 witness: a read request was answered 200 while the ledger held a second
\* row of an identifier that already had one.
C22_Witness ==
  /\ rpc = "done" /\ rres.status = 200
  /\ Cardinality(scans) = 2
  /\ \A r1, r2 \in scans : r1.uid = r2.uid

\* C23 (as claimed): a logs or stats request is in its handler, where the
\* ledger is queried and the data answered, only when its key is that of an
\* active api_keys row with admin permissions.
C23_AdminOnly ==
  (req.route \in {"logs", "stats"} /\ InHandler(rpc))
    => \E r \in ApiKeyRows :
         r.api_key = req.apiKey /\ r.active = 1 /\ r.permissions = "admin"

\* C24: isWithinCooldown answers true exactly when the identifier has a last
\* scan and the time elapsed since it is strictly less than the cooldown
\* period: false at an elapsed time equal to the period or greater, true at
\* every elapsed time below it, although the difference is truncated to whole
\* minutes before it is compared.
C24_CooldownStrict ==
  \A i \in DOMAIN out :
    out[i] <=> /\ arg.lastScanTime # NoTime
               /\ arg.t - arg.lastScanTime < arg.cooldownMinutes * TicksPerMinute
\* C24 witness: with a period of two minutes, a call one tick short of the
\* period after the last scan answered true.
C24_Witness ==
  /\ Len(out) = 1 /\ out[1]
  /\ arg.lastScanTime # NoTime
  /\ arg.cooldownMinutes = 2
  /\ arg.t - arg.lastScanTime = 2 * TicksPerMinute - 1

\* C25: when the fraud check of a request reads the ledger while the most
\* recent row of its identifier is less than the cooldown window old and the
\* identifier already has dailyScanLimit rows or more dated on the current UTC
\* day, the request is answered COOLDOWN_ACTIVE; the daily count is read only
\* for a request that has passed the cooldown test, and DAILY_LIMIT_EXCEEDED is
\* answered only after that read.
C25_CooldownFirst ==
  [][\A p \in Procs :
       LET blocked == \E r \in Newest(body[p].uid) : now - r.timestamp < CooldownTicks
           atLimit == Cardinality(RowsOn(body[p].uid, now \div TicksPerDay)) >= DailyScanLimit
       IN /\ ( /\ pc[p] = "lastScan" /\ StepOf(p) /\ res'[p] # NextError
               /\ blocked /\ atLimit )
             => CodeOf(res'[p]) = "COOLDOWN_ACTIVE"
          /\ (pc[p] = "lastScan" /\ pc'[p] = "dailyCount") => ~blocked
          /\ (CodeOf(res'[p]) = "DAILY_LIMIT_EXCEEDED" /\ StepOf(p))
             => pc[p] = "dailyCount"]_vars
\* C25 witness: an identifier has dailyScanLimit rows today at different
\* instants, the newest less than the cooldown window old, and a request was
\* answered COOLDOWN_ACTIVE on account of that newest row.
C25_Witness ==
  \E p \in Procs, u \in {UidA, UidB} :
    /\ CodeOf(res[p]) = "COOLDOWN_ACTIVE"
    /\ scans = RowsOn(u, now \div TicksPerDay)
    /\ Cardinality(scans) = DailyScanLimit
    /\ Cardinality({r.timestamp : r \in scans}) = DailyScanLimit
    /\ \E r \in Newest(u) : now - r.timestamp < CooldownTicks
                            /\ res[p].lastScanTime = r.timestamp

\* C26: in every reachable state every row of the ledger has an identifier
\* accepted by isValidUID, a campaign that is present and not empty, and
\* verified = 1 (true as stored).
C26_StoredRowsAdmissible ==
  \A r \in scans :
    /\ isValidUID(r.uid)
    /\ ~Falsy(r.campaign_id)
    /\ r.verified = SqlBool(TRUE)
\* C26 witness: one request was answered INVALID_UID_FORMAT, another was
\* admitted, and the ledger holds the row of the admitted one.
C26_Witness ==
  \E p, q \in Procs :
    /\ CodeOf(res[p]) = "INVALID_UID_FORMAT"
    /\ res[q].status = 201
    /\ scans # {}
    /\ \A r \in scans : r.verified = 1 /\ r.campaign_id = Demo01

\* C27 (as claimed): a request that is answered with anything but success
\* (COOLDOWN_ACTIVE, DAILY_LIMIT_EXCEEDED, a validation error, a storage
\* failure) is answered by a step that leaves the ledger unchanged, and it has
\* not had its record inserted before.
C27_FailureLeavesLedger ==
  [][\A p \in Procs :
       (StepOf(p) /\ pc'[p] = "done" /\ res'[p].status # 201)
         => /\ scans' = scans
            /\ pc[p] \notin {"total", "today"}]_vars

\* C28 (as claimed): a stats request one of whose queries failed is not
\* answered 200: it is answered with an error.
C28_StatsFailurePropagated ==
  [][( /\ rpc = "statsResolved" /\ rpc' = "done" /\ rloc.failed )
     => /\ rres'.status # 200
        /\ rres'.status >= 500]_vars

\* C29 (as claimed): the CSV content for a ledger holding the record of a
\* request that validateScanRequest passes is two lines, the header and the
\* record's row, and the row has exactly six comma-separated fields.
C29_CsvRowSixFields ==
  \A i \in DOMAIN out :
    out[i].verdict = "next" =>
      /\ SplitLength(out[i].csv, 10) = 2
      /\ SplitLength(CsvLine(RowOf(ScanRecord(arg.body.uid, arg.body.campaign_id,
                                              arg.t, arg.rnd))), 44) = 6

\* C30 (as claimed): when a request is answered 201, the row of its scan id
\* that getScans returns (the row logs lists and the CSV export prints) has
\* the scan_id, uid, campaign_id, timestamp and checksum of the record in the
\* answer, and its verified flag reads true, as the answer's does, both in the
\* logs row and in the CSV row.
C30_ReadBackEqualsResult ==
  [][\A p \in Procs :
       (StepOf(p) /\ res'[p].status = 201)
         => LET a == res'[p].data
            IN \E o \in getScans(NoFilters)' :
                 /\ o # SqlError
                 /\ \E i \in DOMAIN o.rows :
                      LET r == o.rows[i]
                      IN /\ r.scan_id = a.scan_id /\ r.uid = a.uid
                         /\ r.campaign_id = a.campaign_id
                         /\ r.timestamp = a.timestamp /\ r.checksum = a.checksum
                         /\ CsvFieldTexts(r)[2] = a.uid
                         /\ CsvFieldTexts(r)[3] = a.campaign_id
                         /\ CsvFieldTexts(r)[4] = IsoString(a.timestamp)
                         /\ DecText(r.verified) = JsonBool(a.verified)
                         /\ CsvFieldTexts(r)[6] = JsonBool(a.verified)]_vars

\* A step of the request in slot p is possible.
CanStep(p) ==
  ENABLED (\/ Validate(p) \/ LastScanDone(p) \/ DailyCountDone(p)
           \/ InsertDone(p) \/ TotalDone(p) \/ TodayDone(p))
\* C31: the fraud decision on a request is a function of the ledger rows of
\* its own identifier and of the clock: unless a read fails, it is answered
\* COOLDOWN_ACTIVE exactly when the newest row of its identifier is less than
\* the window old, and DAILY_LIMIT_EXCEEDED exactly when the rows of its
\* identifier dated on the day of the test number dailyScanLimit or more, so
\* that ledgers agreeing on the rows of the identifier give the same decision,
\* whatever rows and requests of other identifiers there are; and a request in
\* flight can always take its next step, whatever the other requests do.
C31_DecisionOwnRowsOnly ==
  /\ [][\A p \in Procs :
          /\ (pc[p] = "lastScan" /\ StepOf(p) /\ res'[p] # NextError)
             => ( CodeOf(res'[p]) = "COOLDOWN_ACTIVE"
                  <=> \E r \in Newest(body[p].uid) : now - r.timestamp < CooldownTicks )
          /\ (pc[p] = "dailyCount" /\ StepOf(p) /\ res'[p] # NextError)
             => ( CodeOf(res'[p]) = "DAILY_LIMIT_EXCEEDED"
                  <=> Cardinality(RowsOn(body[p].uid, loc[p].today)) >= DailyScanLimit )]_vars
  /\ [](\A p \in Procs : pc[p] \notin {"idle", "done"} => CanStep(p))
\* C31 witness: a request for one identifier was admitted at the very instant
\* of a row of the other identifier, which was thus inside its cooldown window.
C31_Witness ==
  \E p \in Procs :
    /\ res[p].status = 201
    /\ res[p].data.uid = UidA
    /\ \E r \in RowsOf(UidB) : r.timestamp = res[p].data.timestamp /\ r.timestamp = now
    /\ \E q \in Procs : pc[q] = "lastScan" /\ body[q].uid = UidB

\* C32 (as claimed): in a 201 answer, meta.total_scans is the number of rows
\* of the ledger, the admitted record among them, and meta.daily_scans is the
\* number of rows dated on the current UTC day, whatever the size of the
\* ledger.
C32_AdmissionTotals ==
  [][\A p \in Procs :
       (StepOf(p) /\ res'[p].status = 201)
         => /\ res'[p].meta.total_scans = Cardinality(scans')
            /\ RowOf(res'[p].data) \in scans'
            /\ res'[p].meta.daily_scans =
                 Cardinality({r \in scans' : r.timestamp \div TicksPerDay = now \div TicksPerDay})]_vars

\* Days on which the ledger may have rows.
LedgerDays == 0 .. (MaxTime \div TicksPerDay) + 1
\* C33: for every day d, a row is counted by getDailyScanCount(uid, d) exactly
\* when the CSV export for d lists it, exactly when getStats counts it in
\* todayScans on day d, and exactly when the admission answer counts it in
\* daily_scans on day d.
C33_OneDayDefinition ==
  \A d \in LedgerDays :
    LET exported == WhereRows(CsvFilters(DateString(d), NoQuery))
        answered == WhereRows(TodayFilters(d))
    IN /\ \A r \in scans : SqlDate(r.timestamp) = d <=> r \in exported
       /\ \A u \in {UidA, UidB} :
            getDailyScanCount(u, d) = Cardinality({r \in exported : r.uid = u})
       /\ exported = answered
       /\ StatsQuery("todayScans", d, d - 1) = Cardinality(answered)
\* C33 witness: the ledger holds a row dated at the last instant of one day and
\* a row dated at the first instant of the next, and the clock is on the
\* second of these days.
C33_Witness ==
  /\ \E r1, r2 \in scans : /\ r1.timestamp = TicksPerDay - 1
                           /\ r2.timestamp = TicksPerDay
                           /\ r1.uid = r2.uid
  /\ IsoDay(now) = 1

\* C34: in every reachable state, the checksum of every row of the ledger is
\* generateAEIChecksum of the row's own uid, timestamp and campaign_id under
\* the configured secret, and verifyAEIChecksum of the row's fields and its
\* checksum returns true without throwing.
C34_StoredChecksumsVerify ==
  \A r \in scans :
    LET expected == generateAEIChecksum(r.uid, r.timestamp, r.campaign_id, AeiSecretKey)
        verdict == verifyAEIChecksum(DigestText(expected), DigestText(r.checksum))
    IN /\ r.checksum = expected
       /\ ~verdict.threw
       /\ verdict.value
\* C34 witness: the ledger holds rows of two identifiers sealed at different
\* instants, and the clock has moved on since.
C34_Witness ==
  /\ \E r1, r2 \in scans : /\ r1.uid # r2.uid
                           /\ r1.timestamp # r2.timestamp
                           /\ r1.checksum # r2.checksum
  /\ \A r \in scans : r.timestamp < now

\* C35: two triples of an identifier accepted by isValidUID, a 24-character
\* toISOString timestamp and a campaign accepted by validateScanRequest that
\* give the same concatenated data are the same triple.
C35_SealedDataUnambiguous ==
  (out # << >> /\ out[1] = out[2]) => arg.a = arg.b
\* C35 witness: two triples with different identifiers, one extending the
\* other by the digits a year would supply, gave data of the same length that
\* differ.
C35_Witness ==
  /\ out # << >>
  /\ Len(out[1]) = Len(out[2])
  /\ Len(arg.a.uid) < Len(arg.b.uid)
  /\ SubSeq(out[1], 1, Len(arg.b.uid)) = arg.b.uid
  /\ out[1] # out[2]

=============================================================================
